---- MODULE Spec2Model ----
(***************************************************************************)
(* DVMM (Domain-View Model Mapper): the mapper classes of the              *)
(* documentation examples, each a pair toViewModel / toDomainModel, and    *)
(* a caller that constructs a domain record and applies a mapper to it     *)
(* back and forth.                                                         *)
(*                                                                         *)
(* JavaScript values are modelled as follows.                              *)
(*   string    a TLA+ string (Len, SubSeq and \o act on its characters)    *)
(*   boolean   a TLA+ boolean                                              *)
(*   object    a record; an optional property that is absent is a field    *)
(*             that is not in the record's domain                          *)
(*   array     a sequence                                                  *)
(*   null, undefined   the records Null and Undefined                      *)
(*   Date      a record [valid, days, ms]: the time value as whole days    *)
(*             since 1970-01-01 and milliseconds within the day, or the    *)
(*             Invalid Date (time value NaN)                               *)
(*   number    an integer where the code only copies it; where the code    *)
(*             computes with it (the price), a record [nan, mant, scale,   *)
(*             err] denoting mant / 10^scale, off by a binary rounding     *)
(*             error smaller than any decimal digit kept, of sign err      *)
(*   a field of type string | null holds Null or JsString(s)               *)
(* A call that throws yields the record RangeError in place of a result.   *)
(***************************************************************************)
EXTENDS Integers, Sequences, FiniteSets, TLC

VARIABLES mapper, chain, fpErr, localTZA, given, chainB

vars == <<mapper, chain, fpErr, localTZA, given, chainB>>

-----------------------------------------------------------------------------
(* Bounds of the model *)

\* longest sequence of mapper calls the caller applies to one record
MaxCalls == 4

\* prices 0..MaxPriceCents are enumerated, besides the documented examples
MaxPriceCents == 12

\* longest roles / tasks array
MaxItems == 2

-----------------------------------------------------------------------------
(* JavaScript values *)

Null == [tag |-> "null"]

Undefined == [tag |-> "undefined"]

JsString(s) == [tag |-> "string", value |-> s]

\* what a call yields when it throws: toISOString of an Invalid Date
RangeError == [tag |-> "RangeError"]

\* what a call yields when it throws: reading a property of null or undefined
TypeError == [tag |-> "TypeError"]

\* the call threw
IsError(x) == x \in {RangeError, TypeError}

\* domain.attachment: reading a property that is absent yields undefined
Get(obj, field) == IF field \in DOMAIN obj THEN obj[field] ELSE Undefined

\* the condition of  x ? a : b  for the values the mappers test
Truthy(x) ==
    IF "tag" \in DOMAIN x
    THEN CASE x.tag = "null" -> FALSE
           [] x.tag = "undefined" -> FALSE
           [] x.tag = "string" -> x.value # ""
           [] OTHER -> TRUE
    ELSE TRUE

-----------------------------------------------------------------------------
(* Characters and decimal numerals *)

Char(s, i) == SubSeq(s, i, i)

DigitChar(d) == Char("0123456789", d + 1)

IsDigit(c) == \E d \in 0..9 : DigitChar(d) = c

DigitVal(c) == CHOOSE d \in 0..9 : DigitChar(d) = c

AllDigits(s) == \A i \in 1..Len(s) : IsDigit(Char(s, i))

\* the value of a non-empty run of digits
RECURSIVE DigitsVal(_)
DigitsVal(s) ==
    IF Len(s) = 0 THEN 0
    ELSE 10 * DigitsVal(SubSeq(s, 1, Len(s) - 1)) + DigitVal(Char(s, Len(s)))

\* the decimal numeral of a natural number
RECURSIVE NatToString(_)
NatToString(n) ==
    IF n < 10 THEN DigitChar(n) ELSE NatToString(n \div 10) \o DigitChar(n % 10)

\* String.prototype.padStart(width, '0') of a numeral
RECURSIVE PadZero(_, _)
PadZero(s, width) == IF Len(s) >= width THEN s ELSE PadZero("0" \o s, width)

RECURSIVE Pow(_, _)
Pow(b, k) == IF k = 0 THEN 1 ELSE b * Pow(b, k - 1)

\* the longest run of digits of s that starts at position i
RECURSIVE DigitRun(_, _)
DigitRun(s, i) ==
    IF i <= Len(s) /\ IsDigit(Char(s, i))
    THEN Char(s, i) \o DigitRun(s, i + 1) ELSE ""

\* String.prototype.replace(pattern, replacement) with a one-character string
\* pattern: the first occurrence only
RECURSIVE IndexOf(_, _, _)
IndexOf(s, c, i) ==
    IF i > Len(s) THEN 0 ELSE IF Char(s, i) = c THEN i ELSE IndexOf(s, c, i + 1)

Replace(s, pattern, replacement) ==
    LET i == IndexOf(s, pattern, 1)
    IN  IF i = 0 THEN s
        ELSE SubSeq(s, 1, i - 1) \o replacement \o SubSeq(s, i + 1, Len(s))

-----------------------------------------------------------------------------
(* Date: new Date(isoString) and Date.prototype.toISOString *)

MsPerDay == 86400000

InvalidDate == [valid |-> FALSE, days |-> 0, ms |-> 0]

IsLeapYear(y) == (y % 4 = 0 /\ y % 100 # 0) \/ y % 400 = 0

DaysInMonth(y, m) ==
    IF m = 2 THEN (IF IsLeapYear(y) THEN 29 ELSE 28)
    ELSE IF m \in {4, 6, 9, 11} THEN 30 ELSE 31

\* days from 1970-01-01 to the civil date y-m-d (proleptic Gregorian)
DaysFromCivil(y, m, d) ==
    LET yy  == IF m <= 2 THEN y - 1 ELSE y
        era == yy \div 400
        yoe == yy - era * 400
        mp  == (m + 9) % 12
        doy == (153 * mp + 2) \div 5 + d - 1
        doe == yoe * 365 + yoe \div 4 - yoe \div 100 + doy
    IN  era * 146097 + doe - 719468

\* the civil date of a day number
CivilFromDays(z0) ==
    LET z   == z0 + 719468
        era == z \div 146097
        doe == z - era * 146097
        yoe == (doe - doe \div 1460 + doe \div 36524 - doe \div 146096) \div 365
        doy == doe - (365 * yoe + yoe \div 4 - yoe \div 100)
        mp  == (5 * doy + 2) \div 153
        d   == doy - (153 * mp + 2) \div 5 + 1
        m   == IF mp < 10 THEN mp + 3 ELSE mp - 9
        y   == yoe + era * 400 + (IF m <= 2 THEN 1 ELSE 0)
    IN  [year |-> y, month |-> m, day |-> d]

\* a time value from a day number and a possibly out-of-range ms of day
MakeDate(days, ms) ==
    [valid |-> TRUE, days |-> days + ms \div MsPerDay, ms |-> ms % MsPerDay]

\* what the parsers below return for text that is not of their form
NoParse == -99999999

\* the YYYY-MM-DD part: the day number
ParseDatePart(s) ==
    IF /\ Len(s) = 10
       /\ AllDigits(SubSeq(s, 1, 4)) /\ Char(s, 5) = "-"
       /\ AllDigits(SubSeq(s, 6, 7)) /\ Char(s, 8) = "-"
       /\ AllDigits(SubSeq(s, 9, 10))
    THEN LET y == DigitsVal(SubSeq(s, 1, 4))
             m == DigitsVal(SubSeq(s, 6, 7))
             d == DigitsVal(SubSeq(s, 9, 10))
         IN  IF m \in 1..12 /\ d >= 1 /\ d <= DaysInMonth(y, m)
             THEN DaysFromCivil(y, m, d) ELSE NoParse
    ELSE NoParse

\* the HH:mm:ss or HH:mm:ss.sss part: the ms of day (24:00:00 is the end of
\* the day)
ParseTimePart(s) ==
    IF /\ Len(s) \in {8, 12}
       /\ AllDigits(SubSeq(s, 1, 2)) /\ Char(s, 3) = ":"
       /\ AllDigits(SubSeq(s, 4, 5)) /\ Char(s, 6) = ":"
       /\ AllDigits(SubSeq(s, 7, 8))
       /\ Len(s) = 12 => (Char(s, 9) = "." /\ AllDigits(SubSeq(s, 10, 12)))
    THEN LET h   == DigitsVal(SubSeq(s, 1, 2))
             mi  == DigitsVal(SubSeq(s, 4, 5))
             sec == DigitsVal(SubSeq(s, 7, 8))
             ms  == IF Len(s) = 12 THEN DigitsVal(SubSeq(s, 10, 12)) ELSE 0
         IN  IF \/ h <= 23 /\ mi <= 59 /\ sec <= 59
                \/ h = 24 /\ mi = 0 /\ sec = 0 /\ ms = 0
             THEN ((h * 60 + mi) * 60 + sec) * 1000 + ms ELSE NoParse
    ELSE NoParse

\* the zone designator Z or +HH:mm or -HH:mm: minutes east of UTC; a
\* date-time without a designator is local time
ParseOffset(s) ==
    IF s = "Z" THEN 0
    ELSE IF s = "" THEN localTZA
    ELSE IF /\ Len(s) = 6 /\ Char(s, 1) \in {"+", "-"}
            /\ AllDigits(SubSeq(s, 2, 3)) /\ Char(s, 4) = ":"
            /\ AllDigits(SubSeq(s, 5, 6))
            /\ DigitsVal(SubSeq(s, 2, 3)) <= 23 /\ DigitsVal(SubSeq(s, 5, 6)) <= 59
         THEN (IF Char(s, 1) = "-" THEN -1 ELSE 1)
              * (DigitsVal(SubSeq(s, 2, 3)) * 60 + DigitsVal(SubSeq(s, 5, 6)))
         ELSE NoParse

\* the length of the time part of a date-time string s (after the T)
TimeLen(s) == IF Len(s) >= 23 /\ Char(s, 20) = "." THEN 12 ELSE 8

\* new Date(s) for a string s: the ECMAScript date-time string format (a date
\* alone is UTC); any other string gives the Invalid Date
NewDate(s) ==
    IF Len(s) = 10
    THEN IF ParseDatePart(s) # NoParse
         THEN MakeDate(ParseDatePart(s), 0) ELSE InvalidDate
    ELSE IF Len(s) >= 19 /\ Char(s, 11) = "T"
    THEN LET days == ParseDatePart(SubSeq(s, 1, 10))
             tod  == ParseTimePart(SubSeq(s, 12, 11 + TimeLen(s)))
             off  == ParseOffset(SubSeq(s, 12 + TimeLen(s), Len(s)))
         IN  IF days # NoParse /\ tod # NoParse /\ off # NoParse
             THEN MakeDate(days, tod - off * 60000) ELSE InvalidDate
    ELSE InvalidDate

\* ToISOString without the milliseconds: YYYY-MM-DDTHH:mm:ssZ
ToISOString_NoMillis(date) ==
    LET c   == CivilFromDays(date.days)
        h   == date.ms \div 3600000
        mi  == (date.ms \div 60000) % 60
        sec == (date.ms \div 1000) % 60
    IN  PadZero(NatToString(c.year), 4) \o "-" \o PadZero(NatToString(c.month), 2)
        \o "-" \o PadZero(NatToString(c.day), 2) \o "T"
        \o PadZero(NatToString(h), 2) \o ":" \o PadZero(NatToString(mi), 2)
        \o ":" \o PadZero(NatToString(sec), 2) \o "Z"

\* ToISOString that writes the fields of the local time before the Z
ToISOString_LocalTime(date) ==
    LET loc == MakeDate(date.days, date.ms + localTZA * 60000)
        c   == CivilFromDays(loc.days)
        h   == loc.ms \div 3600000
        mi  == (loc.ms \div 60000) % 60
        sec == (loc.ms \div 1000) % 60
        ms  == loc.ms % 1000
    IN  PadZero(NatToString(c.year), 4) \o "-" \o PadZero(NatToString(c.month), 2)
        \o "-" \o PadZero(NatToString(c.day), 2) \o "T"
        \o PadZero(NatToString(h), 2) \o ":" \o PadZero(NatToString(mi), 2)
        \o ":" \o PadZero(NatToString(sec), 2) \o "."
        \o PadZero(NatToString(ms), 3) \o "Z"

\* Date.prototype.toISOString of a valid Date: YYYY-MM-DDTHH:mm:ss.sssZ
ToISOString(date) ==
    LET c   == CivilFromDays(date.days)
        h   == date.ms \div 3600000
        mi  == (date.ms \div 60000) % 60
        sec == (date.ms \div 1000) % 60
        ms  == date.ms % 1000
    IN  PadZero(NatToString(c.year), 4) \o "-" \o PadZero(NatToString(c.month), 2)
        \o "-" \o PadZero(NatToString(c.day), 2) \o "T"
        \o PadZero(NatToString(h), 2) \o ":" \o PadZero(NatToString(mi), 2)
        \o ":" \o PadZero(NatToString(sec), 2) \o "."
        \o PadZero(NatToString(ms), 3) \o "Z"

-----------------------------------------------------------------------------
(* Numbers the code computes with: domain.price_cents / 100, toFixed(2),   *)
(* parseFloat, * 100, Math.round.  A number denotes mant / 10^scale; when  *)
(* that decimal is not a binary fraction the double nearest to it is off   *)
(* by a rounding error of sign err, smaller than any decimal digit.        *)

JsNumber(n) == [nan |-> FALSE, mant |-> n, scale |-> 0, err |-> 0]

NaN == [nan |-> TRUE, mant |-> 0, scale |-> 0, err |-> 0]

\* the decimal mant / 10^scale is a binary fraction (a double holds it)
IsBinaryFraction(mant, scale) == mant % Pow(5, scale) = 0

\* the double nearest to the decimal mant / 10^scale
NearestDouble(mant, scale) ==
    [nan |-> FALSE, mant |-> mant, scale |-> scale,
     err |-> IF IsBinaryFraction(mant, scale) THEN 0 ELSE fpErr.nearest]

\* x / 100
DivideBy100(x) == IF x.nan THEN NaN ELSE NearestDouble(x.mant, x.scale + 2)

\* x * 100: exact when x is, else rounded once more
Times100(x) ==
    IF x.nan THEN NaN
    ELSE [nan |-> FALSE,
          mant |-> IF x.scale >= 2 THEN x.mant ELSE x.mant * Pow(10, 2 - x.scale),
          scale |-> IF x.scale >= 2 THEN x.scale - 2 ELSE 0,
          err |-> IF x.err = 0 THEN 0 ELSE fpErr.product]

Abs(n) == IF n < 0 THEN -n ELSE n

\* ToFixed2 that cuts the digits after the second instead of rounding
ToFixed2_Truncating(x) ==
    IF x.nan THEN "NaN"
    ELSE LET a   == Abs(x.mant)
             e   == IF x.mant < 0 THEN -x.err ELSE x.err
             num == a * 100
             den == Pow(10, x.scale)
             q   == num \div den
             n   == IF num % den = 0 /\ e < 0 /\ q > 0 THEN q - 1 ELSE q
             m   == PadZero(NatToString(n), 3)
         IN  (IF x.mant < 0 THEN "-" ELSE "")
             \o SubSeq(m, 1, Len(m) - 2) \o "." \o SubSeq(m, Len(m) - 1, Len(m))

\* Number.prototype.toFixed(2): the integer n with n / 100 nearest to |x|
\* (the larger of two), written with a point before its last two digits
ToFixed2(x) ==
    IF x.nan THEN "NaN"
    ELSE LET a   == Abs(x.mant)
             e   == IF x.mant < 0 THEN -x.err ELSE x.err
             num == a * 100
             den == Pow(10, x.scale)
             q   == num \div den
             r   == num % den
             n   == IF 2 * r > den \/ (2 * r = den /\ e >= 0) THEN q + 1 ELSE q
             m   == PadZero(NatToString(n), 3)
         IN  (IF x.mant < 0 THEN "-" ELSE "")
             \o SubSeq(m, 1, Len(m) - 2) \o "." \o SubSeq(m, Len(m) - 1, Len(m))

\* parseFloat(s): the longest prefix of s, after leading blanks, that is a
\* decimal literal  [+-] digits [ . digits ]; NaN when there is none
RECURSIVE SkipBlanks(_, _)
SkipBlanks(s, i) ==
    IF i <= Len(s) /\ Char(s, i) = " " THEN SkipBlanks(s, i + 1) ELSE i

ParseFloat(s) ==
    LET i0    == SkipBlanks(s, 1)
        neg   == i0 <= Len(s) /\ Char(s, i0) = "-"
        i1    == IF i0 <= Len(s) /\ Char(s, i0) \in {"+", "-"} THEN i0 + 1 ELSE i0
        int   == DigitRun(s, i1)
        i2    == i1 + Len(int)
        frac  == IF i2 <= Len(s) /\ Char(s, i2) = "." THEN DigitRun(s, i2 + 1) ELSE ""
        value == DigitsVal(int \o frac)
    IN  IF Len(int) + Len(frac) = 0 THEN NaN
        ELSE NearestDouble(IF neg THEN -value ELSE value, Len(frac))

\* Math.floor in the place of Math.round
MathRound_Floor(x) ==
    IF x.nan THEN NaN
    ELSE LET den == Pow(10, x.scale)
             q   == x.mant \div den
         IN  JsNumber(IF x.mant % den = 0 /\ x.err < 0 THEN q - 1 ELSE q)

\* Math.round(x): floor(x + 0.5); an integer, or NaN
MathRound(x) ==
    IF x.nan THEN NaN
    ELSE LET den == 2 * Pow(10, x.scale)
             num == 2 * x.mant + Pow(10, x.scale)
             q   == num \div den
         IN  JsNumber(IF num % den = 0 /\ x.err < 0 THEN q - 1 ELSE q)

-----------------------------------------------------------------------------
(* The mappers: todo list *)

\* TodoMapper.toViewModel with  domain.due_date !== null ? ... : null
TodoMapper_toViewModel_NullTest(domain) ==
    [id |-> domain.id,
     text |-> domain.text,
     isDone |-> domain.completed,
     dueDate |-> IF domain.due_date # Null
                 THEN NewDate(domain.due_date.value) ELSE Null]

\* due_date is string | null: Null or JsString(s)
TodoMapper_toViewModel(domain) ==
    [id |-> domain.id,
     text |-> domain.text,
     isDone |-> domain.completed,
     dueDate |-> IF Truthy(domain.due_date)
                 THEN NewDate(domain.due_date.value) ELSE Null]

TodoMapper_toDomainModel(view) ==
    IF Truthy(view.dueDate) /\ ~view.dueDate.valid THEN RangeError
    ELSE [id |-> view.id,
          text |-> view.text,
          completed |-> view.isDone,
          due_date |-> IF Truthy(view.dueDate)
                       THEN JsString(ToISOString(view.dueDate)) ELSE Null]

(* The mappers: getting started (a post with two dates) *)

\* PostMapper.toViewModel with updatedAt read from created_at
PostMapper_toViewModel_SameDate(domain) ==
    [id |-> domain.id,
     title |-> domain.title,
     description |-> domain.description,
     stars |-> domain.stars,
     createdAt |-> NewDate(domain.created_at),
     updatedAt |-> NewDate(domain.created_at)]

PostMapper_toViewModel(domain) ==
    [id |-> domain.id,
     title |-> domain.title,
     description |-> domain.description,
     stars |-> domain.stars,
     createdAt |-> NewDate(domain.created_at),
     updatedAt |-> NewDate(domain.updated_at)]

PostMapper_toDomainModel(view) ==
    IF ~view.createdAt.valid \/ ~view.updatedAt.valid THEN RangeError
    ELSE [id |-> view.id,
          title |-> view.title,
          description |-> view.description,
          stars |-> view.stars,
          created_at |-> ToISOString(view.createdAt),
          updated_at |-> ToISOString(view.updatedAt)]

(* The mappers: blog (a post with its author) *)

AuthorMapper_toViewModel(domain) ==
    [id |-> domain.id,
     displayName |-> domain.name,
     avatarUrl |-> domain.avatar_url]

AuthorMapper_toDomainModel(view) ==
    [id |-> view.id,
     name |-> view.displayName,
     avatar_url |-> view.avatarUrl]

\* the blog PostMapper.toViewModel that passes the author on unmapped
BlogPostMapper_toViewModel_Unmapped(domain) ==
    [id |-> domain.id,
     title |-> domain.title,
     content |-> domain.content,
     author |-> domain.author,
     publishedAt |-> NewDate(domain.published_at)]

BlogPostMapper_toViewModel(domain) ==
    [id |-> domain.id,
     title |-> domain.title,
     content |-> domain.content,
     author |-> AuthorMapper_toViewModel(domain.author),
     publishedAt |-> NewDate(domain.published_at)]

BlogPostMapper_toDomainModel(view) ==
    IF ~view.publishedAt.valid THEN RangeError
    ELSE [id |-> view.id,
          title |-> view.title,
          content |-> view.content,
          author |-> AuthorMapper_toDomainModel(view.author),
          published_at |-> ToISOString(view.publishedAt)]

(* The mappers: messaging (a message with an optional attachment) *)

AttachmentMapper_toViewModel(domain) ==
    [id |-> domain.id,
     url |-> domain.url,
     kind |-> domain.type]

AttachmentMapper_toDomainModel(view) ==
    [id |-> view.id,
     url |-> view.url,
     type |-> view.kind]

\* MessageMapper.toViewModel that maps the attachment without testing it
MessageMapper_toViewModel_Unguarded(domain) ==
    IF ~Truthy(Get(domain, "attachment")) THEN TypeError
    ELSE [id |-> domain.id,
          sender |-> domain.sender,
          text |-> domain.text,
          sentAt |-> NewDate(domain.sent_at),
          attachment |-> AttachmentMapper_toViewModel(domain.attachment)]

\* MessageMapper.toViewModel with  domain.attachment && map(domain.attachment)
MessageMapper_toViewModel_PassThrough(domain) ==
    [id |-> domain.id,
     sender |-> domain.sender,
     text |-> domain.text,
     sentAt |-> NewDate(domain.sent_at),
     attachment |-> IF Truthy(Get(domain, "attachment"))
                    THEN AttachmentMapper_toViewModel(domain.attachment)
                    ELSE Get(domain, "attachment")]

MessageMapper_toViewModel(domain) ==
    [id |-> domain.id,
     sender |-> domain.sender,
     text |-> domain.text,
     sentAt |-> NewDate(domain.sent_at),
     attachment |-> IF Truthy(Get(domain, "attachment"))
                    THEN AttachmentMapper_toViewModel(domain.attachment) ELSE Null]

\* MessageMapper.toDomainModel that sets attachment only when there is one
MessageMapper_toDomainModel_Omitting(view) ==
    IF ~view.sentAt.valid THEN RangeError
    ELSE IF Truthy(Get(view, "attachment"))
    THEN [id |-> view.id,
          sender |-> view.sender,
          text |-> view.text,
          sent_at |-> ToISOString(view.sentAt),
          attachment |-> AttachmentMapper_toDomainModel(view.attachment)]
    ELSE [id |-> view.id,
          sender |-> view.sender,
          text |-> view.text,
          sent_at |-> ToISOString(view.sentAt)]

MessageMapper_toDomainModel(view) ==
    IF ~view.sentAt.valid THEN RangeError
    ELSE [id |-> view.id,
          sender |-> view.sender,
          text |-> view.text,
          sent_at |-> ToISOString(view.sentAt),
          attachment |-> IF Truthy(Get(view, "attachment"))
                         THEN AttachmentMapper_toDomainModel(view.attachment)
                         ELSE Null]

(* The mappers: e-commerce (a product with its category and a price) *)

CategoryMapper_toViewModel(domain) ==
    [id |-> domain.id,
     label |-> domain.name]

CategoryMapper_toDomainModel(view) ==
    [id |-> view.id,
     name |-> view.label]

ProductMapper_toViewModel(domain) ==
    [id |-> domain.id,
     name |-> domain.name,
     price |-> "$" \o ToFixed2(DivideBy100(domain.price_cents)),
     category |-> CategoryMapper_toViewModel(domain.category),
     imageUrl |-> domain.image_url]

ProductMapper_toDomainModel_NoImage(view) ==
    [id |-> view.id,
     name |-> view.name,
     price_cents |-> MathRound(Times100(ParseFloat(Replace(view.price, "$", "")))),
     category |-> CategoryMapper_toDomainModel(view.category)]

ProductMapper_toDomainModel(view) ==
    [id |-> view.id,
     name |-> view.name,
     price_cents |-> MathRound(Times100(ParseFloat(Replace(view.price, "$", "")))),
     category |-> CategoryMapper_toDomainModel(view.category),
     image_url |-> view.imageUrl]

(* The mappers: project management (a task and its assignee) *)

\* the number of calls made so far on the mapper instances, by any caller
CallsMade ==
    (Len(chain) - 1) + (IF chainB = <<>> THEN 0 ELSE Len(chainB) - 1)

UserMapper_toViewModel_Counting(domain) ==
    [id |-> domain.id,
     displayName |-> IF CallsMade = 0 THEN domain.name ELSE "user"]

UserMapper_toViewModel(domain) ==
    [id |-> domain.id,
     displayName |-> domain.name]

UserMapper_toDomainModel(view) ==
    [id |-> view.id,
     name |-> view.displayName]

\* TaskMapper.toViewModel that labels the assignee by its id
TaskMapper_toViewModel_AssigneeById(domain) ==
    [id |-> domain.id,
     title |-> domain.title,
     isDone |-> domain.completed,
     assignee |-> [id |-> domain.assignee.id, displayName |-> domain.assignee.id]]

TaskMapper_toViewModel(domain) ==
    [id |-> domain.id,
     title |-> domain.title,
     isDone |-> domain.completed,
     assignee |-> UserMapper_toViewModel(domain.assignee)]

\* TaskMapper.toDomainModel that passes the assignee on unmapped
TaskMapper_toDomainModel_Unmapped(view) ==
    [id |-> view.id,
     title |-> view.title,
     completed |-> view.isDone,
     assignee |-> view.assignee]

TaskMapper_toDomainModel(view) ==
    [id |-> view.id,
     title |-> view.title,
     completed |-> view.isDone,
     assignee |-> UserMapper_toDomainModel(view.assignee)]

(* The mappers: user management (the roles of a user) *)

RoleMapper_toViewModel_Counting(domain) ==
    [id |-> domain.id \o "-" \o NatToString(CallsMade),
     label |-> domain.name]

RoleMapper_toViewModel(domain) ==
    [id |-> domain.id,
     label |-> domain.name]

RoleMapper_toDomainModel(view) ==
    [id |-> view.id,
     name |-> view.label]

(* Array.prototype.map with the arrow functions the mappers pass to it *)

\* the callback: task => taskMapper.toViewModel(task), and the like
Callback(fn, element) ==
    CASE fn = "taskMapper.toViewModel" -> TaskMapper_toViewModel(element)
      [] fn = "taskMapper.toDomainModel" -> TaskMapper_toDomainModel(element)
      [] fn = "roleMapper.toViewModel" -> RoleMapper_toViewModel(element)
      [] fn = "roleMapper.toDomainModel" -> RoleMapper_toDomainModel(element)

\* Map as a loop that prepends each mapped element to its result
RECURSIVE Map_Reversed(_, _)
Map_Reversed(fn, arr) ==
    IF arr = <<>> THEN <<>>
    ELSE Map_Reversed(fn, Tail(arr)) \o <<Callback(fn, Head(arr))>>

\* arr.map(fn)
RECURSIVE Map(_, _)
Map(fn, arr) ==
    IF arr = <<>> THEN <<>> ELSE <<Callback(fn, Head(arr))>> \o Map(fn, Tail(arr))

(* The mappers: a project with its tasks, a user with its roles *)

ProjectMapper_toViewModel(domain) ==
    [id |-> domain.id,
     name |-> domain.name,
     tasks |-> Map("taskMapper.toViewModel", domain.tasks)]

ProjectMapper_toDomainModel(view) ==
    [id |-> view.id,
     name |-> view.name,
     tasks |-> Map("taskMapper.toDomainModel", view.tasks)]

\* UserMapper.toViewModel that maps the roles in place and returns the
\* array of the domain user
RolesUserMapper_toViewModel_SharedRoles(domain) ==
    [id |-> domain.id,
     email |-> domain.email,
     name |-> domain.display_name,
     roles |-> [i \in 1..Len(domain.roles) |->
                  [g \in (DOMAIN domain.roles[i] \ {"name"}) \cup {"label"} |->
                      IF g = "label" THEN domain.roles[i].name
                      ELSE domain.roles[i][g]]]]

RolesUserMapper_toViewModel(domain) ==
    [id |-> domain.id,
     email |-> domain.email,
     name |-> domain.display_name,
     roles |-> Map("roleMapper.toViewModel", domain.roles)]

RolesUserMapper_toDomainModel(view) ==
    [id |-> view.id,
     email |-> view.email,
     display_name |-> view.name,
     roles |-> Map("roleMapper.toDomainModel", view.roles)]

-----------------------------------------------------------------------------
(* The domain records a caller constructs *)

\* date strings of the ECMAScript date-time format: the examples of the
\* documentation, then one with milliseconds, the form toISOString writes,
\* zone offsets that move the date, a date alone and a local date-time
ValidDateStrings ==
    {"2025-06-20T12:00:00Z", "2025-01-01T10:00:00Z", "2025-01-02T10:00:00Z",
     "2025-06-01T10:00:00Z", "2025-06-15T12:00:00Z",
     "2025-06-15T12:00:00.250Z", "2025-06-20T12:00:00.000Z",
     "2024-02-29T23:30:00-02:00", "2025-01-01T00:15:00.500+05:30",
     "2025-06-20", "2025-06-20T12:00:00"}

\* strings that are not dates
InvalidDateStrings == {"not a date", "2025-13-01T10:00:00Z"}

LocalTZAs == {0, 330, -300}

\* minutes east of UTC of the local time zone, where the mapper reads dates
DatedMappers == {"TodoMapper", "PostMapper", "BlogPostMapper", "MessageMapper"}

PriceCents == (-3..MaxPriceCents) \cup {25, 99, 100, 101, 1999, 100000}

TodoDomainModels ==
    [id : {"t1"}, text : {"Buy milk"}, completed : BOOLEAN,
     due_date : {Null} \cup {JsString(s) :
                    s \in ValidDateStrings \cup InvalidDateStrings \cup {""}}]

PostDomainModels ==
    [id : {"1"}, title : {"Test Post"}, description : {"This is a test post."},
     stars : {0, 5},
     created_at : ValidDateStrings \cup InvalidDateStrings,
     updated_at : ValidDateStrings \cup InvalidDateStrings]

AuthorDomainModels ==
    [id : {"a1", "a2"}, name : {"Alice", "Bob"}, avatar_url : {"/alice.png", ""}]

BlogPostDomainModels ==
    [id : {"1"}, title : {"Hello World"}, content : {"Welcome to the blog!"},
     author : AuthorDomainModels,
     published_at : ValidDateStrings \cup InvalidDateStrings]

AttachmentDomainModels ==
    [id : {"a1", "a2"}, url : {"/img.png"}, type : {"image", "file"}]

\* attachment is optional: absent, null or a record
MessageDomainModels ==
    [id : {"m1"}, sender : {"Bob"}, text : {"See attached", ""},
     sent_at : ValidDateStrings \cup InvalidDateStrings]
    \cup
    [id : {"m1"}, sender : {"Bob"}, text : {"See attached", ""},
     sent_at : ValidDateStrings \cup InvalidDateStrings,
     attachment : {Null} \cup AttachmentDomainModels]

CategoryDomainModels == [id : {"c1", "c2"}, name : {"Apparel", "Shoes"}]

ProductDomainModels ==
    [id : {"p1"}, name : {"T-Shirt"},
     price_cents : {JsNumber(c) : c \in PriceCents},
     category : CategoryDomainModels, image_url : {"/tshirt.png"}]

UserDomainModels == [id : {"u1", "u2"}, name : {"Alice", "Bob"}]

TaskDomainModels ==
    [id : {"t1"}, title : {"Design homepage"}, completed : BOOLEAN,
     assignee : [id : {"u1"}, name : {"Alice", "Bob"}]]

\* the arrays of at most MaxItems elements of a set
ArraysOf(S) == UNION {[1..n -> S] : n \in 0..MaxItems}

ProjectDomainModels ==
    [id : {"p1"}, name : {"Website Redesign"}, tasks : ArraysOf(TaskDomainModels)]

RoleDomainModels == [id : {"r1", "r2"}, name : {"admin", "editor"}]

RolesUserDomainModels ==
    [id : {"u1"}, email : {"user@example.com"}, display_name : {"Jane Doe"},
     roles : ArraysOf(RoleDomainModels)]

DomainModels(m) ==
    CASE m = "TodoMapper" -> TodoDomainModels
      [] m = "PostMapper" -> PostDomainModels
      [] m = "AuthorMapper" -> AuthorDomainModels
      [] m = "BlogPostMapper" -> BlogPostDomainModels
      [] m = "AttachmentMapper" -> AttachmentDomainModels
      [] m = "MessageMapper" -> MessageDomainModels
      [] m = "CategoryMapper" -> CategoryDomainModels
      [] m = "ProductMapper" -> ProductDomainModels
      [] m = "UserMapper" -> UserDomainModels
      [] m = "TaskMapper" -> TaskDomainModels
      [] m = "ProjectMapper" -> ProjectDomainModels
      [] m = "RoleMapper" -> RoleDomainModels
      [] m = "RolesUserMapper" -> RolesUserDomainModels

Mappers ==
    {"TodoMapper", "PostMapper", "AuthorMapper", "BlogPostMapper",
     "AttachmentMapper", "MessageMapper", "CategoryMapper", "ProductMapper",
     "UserMapper", "TaskMapper", "ProjectMapper", "RoleMapper", "RolesUserMapper"}

-----------------------------------------------------------------------------
(* The caller: const m = new XMapper(); const d = {...}; then the calls      *)
(* m.toViewModel(d), m.toDomainModel(of that), m.toViewModel(of that) ...   *)
(* chain[1] is the record the caller constructs: a domain record (given is  *)
(* "domain"), or a view record edited in the UI (given is "view") with      *)
(* which the calls start at toDomainModel.  chain[k + 1] is what the k-th   *)
(* call returned.  chainB is the chain of a second caller of the same       *)
(* mapper instance, whose calls interleave with those of the first.         *)

Init ==
    /\ mapper \in Mappers
    /\ given = "domain"
    /\ \E d \in DomainModels(mapper) : chain = <<d>>
    /\ chainB = <<>>
    /\ fpErr \in IF mapper = "ProductMapper"
                 THEN [nearest : {-1, 1}, product : {-1, 0, 1}]
                 ELSE {[nearest |-> 1, product |-> 0]}
    /\ localTZA \in IF mapper \in DatedMappers THEN LocalTZAs ELSE {0}

Last(seq) == seq[Len(seq)]

\* the caller holds a domain record (forward) or a view record to pass on
CanCall(m, forward) ==
    /\ mapper = m
    /\ Len(chain) <= MaxCalls
    /\ ~IsError(Last(chain))
    /\ ((Len(chain) % 2 = 1) = (given = "domain")) = forward

Return(result) ==
    /\ chain' = Append(chain, result)
    /\ UNCHANGED <<mapper, fpErr, localTZA, given, chainB>>

Call_TodoMapper_toViewModel ==
    CanCall("TodoMapper", TRUE) /\ Return(TodoMapper_toViewModel(Last(chain)))

Call_TodoMapper_toDomainModel ==
    CanCall("TodoMapper", FALSE) /\ Return(TodoMapper_toDomainModel(Last(chain)))

Call_PostMapper_toViewModel ==
    CanCall("PostMapper", TRUE) /\ Return(PostMapper_toViewModel(Last(chain)))

Call_PostMapper_toDomainModel ==
    CanCall("PostMapper", FALSE) /\ Return(PostMapper_toDomainModel(Last(chain)))

Call_AuthorMapper_toViewModel ==
    CanCall("AuthorMapper", TRUE) /\ Return(AuthorMapper_toViewModel(Last(chain)))

Call_AuthorMapper_toDomainModel ==
    CanCall("AuthorMapper", FALSE) /\ Return(AuthorMapper_toDomainModel(Last(chain)))

Call_BlogPostMapper_toViewModel ==
    CanCall("BlogPostMapper", TRUE) /\ Return(BlogPostMapper_toViewModel(Last(chain)))

Call_BlogPostMapper_toDomainModel ==
    CanCall("BlogPostMapper", FALSE) /\ Return(BlogPostMapper_toDomainModel(Last(chain)))

Call_AttachmentMapper_toViewModel ==
    CanCall("AttachmentMapper", TRUE) /\ Return(AttachmentMapper_toViewModel(Last(chain)))

Call_AttachmentMapper_toDomainModel ==
    CanCall("AttachmentMapper", FALSE) /\ Return(AttachmentMapper_toDomainModel(Last(chain)))

Call_MessageMapper_toViewModel ==
    CanCall("MessageMapper", TRUE) /\ Return(MessageMapper_toViewModel(Last(chain)))

Call_MessageMapper_toDomainModel ==
    CanCall("MessageMapper", FALSE) /\ Return(MessageMapper_toDomainModel(Last(chain)))

Call_CategoryMapper_toViewModel ==
    CanCall("CategoryMapper", TRUE) /\ Return(CategoryMapper_toViewModel(Last(chain)))

Call_CategoryMapper_toDomainModel ==
    CanCall("CategoryMapper", FALSE) /\ Return(CategoryMapper_toDomainModel(Last(chain)))

Call_ProductMapper_toViewModel ==
    CanCall("ProductMapper", TRUE) /\ Return(ProductMapper_toViewModel(Last(chain)))

Call_ProductMapper_toDomainModel ==
    CanCall("ProductMapper", FALSE) /\ Return(ProductMapper_toDomainModel(Last(chain)))

Call_UserMapper_toViewModel ==
    CanCall("UserMapper", TRUE) /\ Return(UserMapper_toViewModel(Last(chain)))

Call_UserMapper_toDomainModel ==
    CanCall("UserMapper", FALSE) /\ Return(UserMapper_toDomainModel(Last(chain)))

Call_TaskMapper_toViewModel ==
    CanCall("TaskMapper", TRUE) /\ Return(TaskMapper_toViewModel(Last(chain)))

Call_TaskMapper_toDomainModel ==
    CanCall("TaskMapper", FALSE) /\ Return(TaskMapper_toDomainModel(Last(chain)))

Call_ProjectMapper_toViewModel ==
    CanCall("ProjectMapper", TRUE) /\ Return(ProjectMapper_toViewModel(Last(chain)))

Call_ProjectMapper_toDomainModel ==
    CanCall("ProjectMapper", FALSE) /\ Return(ProjectMapper_toDomainModel(Last(chain)))

Call_RoleMapper_toViewModel ==
    CanCall("RoleMapper", TRUE) /\ Return(RoleMapper_toViewModel(Last(chain)))

Call_RoleMapper_toDomainModel ==
    CanCall("RoleMapper", FALSE) /\ Return(RoleMapper_toDomainModel(Last(chain)))

Call_RolesUserMapper_toViewModel ==
    CanCall("RolesUserMapper", TRUE) /\ Return(RolesUserMapper_toViewModel(Last(chain)))

Call_RolesUserMapper_toDomainModel ==
    CanCall("RolesUserMapper", FALSE) /\ Return(RolesUserMapper_toDomainModel(Last(chain)))

Next ==
    \/ Call_TodoMapper_toViewModel
    \/ Call_TodoMapper_toDomainModel
    \/ Call_PostMapper_toViewModel
    \/ Call_PostMapper_toDomainModel
    \/ Call_AuthorMapper_toViewModel
    \/ Call_AuthorMapper_toDomainModel
    \/ Call_BlogPostMapper_toViewModel
    \/ Call_BlogPostMapper_toDomainModel
    \/ Call_AttachmentMapper_toViewModel
    \/ Call_AttachmentMapper_toDomainModel
    \/ Call_MessageMapper_toViewModel
    \/ Call_MessageMapper_toDomainModel
    \/ Call_CategoryMapper_toViewModel
    \/ Call_CategoryMapper_toDomainModel
    \/ Call_ProductMapper_toViewModel
    \/ Call_ProductMapper_toDomainModel
    \/ Call_UserMapper_toViewModel
    \/ Call_UserMapper_toDomainModel
    \/ Call_TaskMapper_toViewModel
    \/ Call_TaskMapper_toDomainModel
    \/ Call_ProjectMapper_toViewModel
    \/ Call_ProjectMapper_toDomainModel
    \/ Call_RoleMapper_toViewModel
    \/ Call_RoleMapper_toDomainModel
    \/ Call_RolesUserMapper_toViewModel
    \/ Call_RolesUserMapper_toDomainModel

Spec == Init /\ [][Next]_vars

-----------------------------------------------------------------------------
(* The caller that starts from a product view: a form in which the price    *)
(* text was typed                                                           *)

\* price texts: as toViewModel writes them, without the symbol, not a
\* number, empty, with a thousands separator, with the unit spelled out,
\* with a third decimal, with the symbol at the end
PriceTexts ==
    {"$19.99", "$0.05", "19.99", "abc", "", "$1,999.00", "USD 19.99",
     "$19.995", "19.99$"}

ProductViewModels ==
    [id : {"p1"}, name : {"T-Shirt"}, price : PriceTexts,
     category : [id : {"c1", "c2"}, label : {"Apparel", "Shoes"}],
     imageUrl : {"/tshirt.png"}]

InitGivenView ==
    /\ mapper = "ProductMapper"
    /\ given = "view"
    /\ chain \in {<<v>> : v \in ProductViewModels}
    /\ chainB = <<>>
    /\ fpErr \in [nearest : {-1, 1}, product : {-1, 0, 1}]
    /\ localTZA = 0

NextGivenView == Call_ProductMapper_toDomainModel \/ Call_ProductMapper_toViewModel

SpecGivenView == InitGivenView /\ [][NextGivenView]_vars

(* Messages: the caller builds a domain message or a message view; in both  *)
(* types attachment is optional (absent or undefined), null or a record     *)

AttachmentViewModels == [id : {"a1"}, url : {"/img.png"}, kind : {"image", "file"}]

MessageViewModels ==
    [id : {"m1"}, sender : {"Bob"}, text : {"See attached", ""},
     sentAt : {MakeDate(20254, 43200000), MakeDate(19783, 5400000), InvalidDate}]
    \cup
    [id : {"m1"}, sender : {"Bob"}, text : {"See attached", ""},
     sentAt : {MakeDate(20254, 43200000), MakeDate(19783, 5400000), InvalidDate},
     attachment : {Null, Undefined} \cup AttachmentViewModels]

InitMessage ==
    /\ mapper = "MessageMapper"
    /\ given \in {"domain", "view"}
    /\ chain \in {<<r>> : r \in IF given = "domain" THEN MessageDomainModels
                                 ELSE MessageViewModels}
    /\ chainB = <<>>
    /\ fpErr = [nearest |-> 1, product |-> 0]
    /\ localTZA \in LocalTZAs

NextMessage == Call_MessageMapper_toViewModel \/ Call_MessageMapper_toDomainModel

SpecMessage == InitMessage /\ [][NextMessage]_vars

-----------------------------------------------------------------------------
(* Two callers of one mapper instance (and so of the module-level nested    *)
(* mapper instances it uses), each with its own record; their calls         *)
(* interleave in any order                                                  *)

\* m.toViewModel(x) when forward, else m.toDomainModel(x)
Apply(m, forward, x) ==
    CASE m = "TodoMapper" ->
            IF forward THEN TodoMapper_toViewModel(x) ELSE TodoMapper_toDomainModel(x)
      [] m = "PostMapper" ->
            IF forward THEN PostMapper_toViewModel(x) ELSE PostMapper_toDomainModel(x)
      [] m = "AuthorMapper" ->
            IF forward THEN AuthorMapper_toViewModel(x) ELSE AuthorMapper_toDomainModel(x)
      [] m = "BlogPostMapper" ->
            IF forward THEN BlogPostMapper_toViewModel(x) ELSE BlogPostMapper_toDomainModel(x)
      [] m = "AttachmentMapper" ->
            IF forward THEN AttachmentMapper_toViewModel(x) ELSE AttachmentMapper_toDomainModel(x)
      [] m = "MessageMapper" ->
            IF forward THEN MessageMapper_toViewModel(x) ELSE MessageMapper_toDomainModel(x)
      [] m = "CategoryMapper" ->
            IF forward THEN CategoryMapper_toViewModel(x) ELSE CategoryMapper_toDomainModel(x)
      [] m = "ProductMapper" ->
            IF forward THEN ProductMapper_toViewModel(x) ELSE ProductMapper_toDomainModel(x)
      [] m = "UserMapper" ->
            IF forward THEN UserMapper_toViewModel(x) ELSE UserMapper_toDomainModel(x)
      [] m = "TaskMapper" ->
            IF forward THEN TaskMapper_toViewModel(x) ELSE TaskMapper_toDomainModel(x)
      [] m = "ProjectMapper" ->
            IF forward THEN ProjectMapper_toViewModel(x) ELSE ProjectMapper_toDomainModel(x)
      [] m = "RoleMapper" ->
            IF forward THEN RoleMapper_toViewModel(x) ELSE RoleMapper_toDomainModel(x)
      [] m = "RolesUserMapper" ->
            IF forward THEN RolesUserMapper_toViewModel(x) ELSE RolesUserMapper_toDomainModel(x)

\* the records of the usage examples and of the mapper test
UsageExamples(m) ==
    CASE m = "TodoMapper" ->
            {[id |-> "t1", text |-> "Buy milk", completed |-> FALSE,
              due_date |-> JsString("2025-06-20T12:00:00Z")]}
      [] m = "PostMapper" ->
            {[id |-> "1", title |-> "Test Post", description |-> "This is a test post.",
              stars |-> 5, created_at |-> "2025-01-01T10:00:00Z",
              updated_at |-> "2025-01-02T10:00:00Z"]}
      [] m = "AuthorMapper" ->
            {[id |-> "a1", name |-> "Alice", avatar_url |-> "/alice.png"]}
      [] m = "BlogPostMapper" ->
            {[id |-> "1", title |-> "Hello World", content |-> "Welcome to the blog!",
              author |-> [id |-> "a1", name |-> "Alice", avatar_url |-> "/alice.png"],
              published_at |-> "2025-06-01T10:00:00Z"]}
      [] m = "AttachmentMapper" ->
            {[id |-> "a1", url |-> "/img.png", type |-> "image"]}
      [] m = "MessageMapper" ->
            {[id |-> "m1", sender |-> "Bob", text |-> "See attached",
              sent_at |-> "2025-06-15T12:00:00Z",
              attachment |-> [id |-> "a1", url |-> "/img.png", type |-> "image"]]}
      [] m = "CategoryMapper" -> {[id |-> "c1", name |-> "Apparel"]}
      [] m = "ProductMapper" ->
            {[id |-> "p1", name |-> "T-Shirt", price_cents |-> JsNumber(1999),
              category |-> [id |-> "c1", name |-> "Apparel"],
              image_url |-> "/tshirt.png"]}
      [] m = "UserMapper" -> {[id |-> "u1", name |-> "Alice"]}
      [] m = "TaskMapper" ->
            {[id |-> "t1", title |-> "Design homepage", completed |-> FALSE,
              assignee |-> [id |-> "u1", name |-> "Alice"]]}
      [] m = "ProjectMapper" ->
            {[id |-> "p1", name |-> "Website Redesign",
              tasks |-> <<[id |-> "t1", title |-> "Design homepage",
                           completed |-> FALSE,
                           assignee |-> [id |-> "u1", name |-> "Alice"]]>>]}
      [] m = "RoleMapper" -> {[id |-> "r1", name |-> "admin"]}
      [] m = "RolesUserMapper" ->
            {[id |-> "u1", email |-> "user@example.com", display_name |-> "Jane Doe",
              roles |-> <<[id |-> "r1", name |-> "admin"],
                          [id |-> "r2", name |-> "editor"]>>]}

InitInterleaved ==
    /\ mapper \in Mappers
    /\ given = "domain"
    /\ \E d \in DomainModels(mapper) : chain = <<d>>
    /\ \E d \in UsageExamples(mapper) : chainB = <<d>>
    /\ fpErr \in IF mapper = "ProductMapper"
                 THEN [nearest : {-1, 1}, product : {-1, 0, 1}]
                 ELSE {[nearest |-> 1, product |-> 0]}
    /\ localTZA \in IF mapper \in DatedMappers THEN LocalTZAs ELSE {0}

\* the second caller's next call: toViewModel of its domain record, then
\* toDomainModel of the view, and so on
Call_Other ==
    /\ chainB # <<>>
    /\ Len(chainB) <= MaxCalls
    /\ ~IsError(Last(chainB))
    /\ chainB' = Append(chainB, Apply(mapper, Len(chainB) % 2 = 1, Last(chainB)))
    /\ UNCHANGED <<mapper, chain, fpErr, localTZA, given>>

NextInterleaved == Next \/ Call_Other

SpecInterleaved == InitInterleaved /\ [][NextInterleaved]_vars

-----------------------------------------------------------------------------
(* Object identity.  Every object a caller holds (a record, a nested        *)
(* record, an array element, a Date) carries in ref the call that made it   *)
(* (1 for the record the caller built) and its path in that record.  An     *)
(* object literal or new Date of a mapper makes an object without ref, which *)
(* gets the ref of the call that returned it; an object of the input that a *)
(* mapper puts into its result keeps the ref it has.                        *)

\* the fields the DomainModel interface of a mapper declares, each with the
\* field of the ViewModel interface that stands for it
ViewFieldOf(m) ==
    CASE m = "TodoMapper" ->
            [id |-> "id", text |-> "text", completed |-> "isDone", due_date |-> "dueDate"]
      [] m = "PostMapper" ->
            [id |-> "id", title |-> "title", description |-> "description",
             stars |-> "stars", created_at |-> "createdAt", updated_at |-> "updatedAt"]
      [] m = "AuthorMapper" ->
            [id |-> "id", name |-> "displayName", avatar_url |-> "avatarUrl"]
      [] m = "BlogPostMapper" ->
            [id |-> "id", title |-> "title", content |-> "content",
             author |-> "author", published_at |-> "publishedAt"]
      [] m = "AttachmentMapper" -> [id |-> "id", url |-> "url", type |-> "kind"]
      [] m = "MessageMapper" ->
            [id |-> "id", sender |-> "sender", text |-> "text",
             sent_at |-> "sentAt", attachment |-> "attachment"]
      [] m = "CategoryMapper" -> [id |-> "id", name |-> "label"]
      [] m = "ProductMapper" ->
            [id |-> "id", name |-> "name", price_cents |-> "price",
             category |-> "category", image_url |-> "imageUrl"]
      [] m = "UserMapper" -> [id |-> "id", name |-> "displayName"]
      [] m = "TaskMapper" ->
            [id |-> "id", title |-> "title", completed |-> "isDone",
             assignee |-> "assignee"]
      [] m = "ProjectMapper" -> [id |-> "id", name |-> "name", tasks |-> "tasks"]
      [] m = "RoleMapper" -> [id |-> "id", name |-> "label"]
      [] m = "RolesUserMapper" ->
            [id |-> "id", email |-> "email", display_name |-> "name",
             roles |-> "roles"]

DomainFields(m) == DOMAIN ViewFieldOf(m)

ViewFields(m) == {ViewFieldOf(m)[f] : f \in DomainFields(m)}

DomainFieldOf(m, viewField) ==
    CHOOSE f \in DomainFields(m) : ViewFieldOf(m)[f] = viewField

\* the fields declared with a record type, an optional record type or an
\* array type: <<domain field, the mapper of that type, its kind>>
NestedFields(m) ==
    CASE m = "BlogPostMapper" -> {<<"author", "AuthorMapper", "record">>}
      [] m = "MessageMapper" -> {<<"attachment", "AttachmentMapper", "optional">>}
      [] m = "ProductMapper" -> {<<"category", "CategoryMapper", "record">>}
      [] m = "TaskMapper" -> {<<"assignee", "UserMapper", "record">>}
      [] m = "ProjectMapper" -> {<<"tasks", "TaskMapper", "array">>}
      [] m = "RolesUserMapper" -> {<<"roles", "RoleMapper", "array">>}
      [] OTHER -> {}

\* the date fields of the domain record of a mapper that reads dates
DateFields(m) ==
    CASE m = "TodoMapper" -> {"due_date"}
      [] m = "PostMapper" -> {"created_at", "updated_at"}
      [] m = "BlogPostMapper" -> {"published_at"}
      [] m = "MessageMapper" -> {"sent_at"}
      [] OTHER -> {}

\* the name of domain field f in the domain record or in the view record
FieldName(m, isDomain, f) == IF isDomain THEN f ELSE ViewFieldOf(m)[f]

AddRef(obj, ref) ==
    IF "ref" \in DOMAIN obj THEN obj
    ELSE [g \in DOMAIN obj \cup {"ref"} |-> IF g = "ref" THEN ref ELSE obj[g]]

RECURSIVE MarkObject(_, _, _, _)
\* record x of mapper m with ref on every object in it that has none yet
MarkObject(m, isDomain, x, ref) ==
    IF "ref" \in DOMAIN x THEN x
    ELSE [g \in DOMAIN x \cup {"ref"} |->
            LET at == [call |-> ref.call, path |-> ref.path \o "." \o g]
                nested == {n \in NestedFields(m) : FieldName(m, isDomain, n[1]) = g}
                dates == {FieldName(m, isDomain, d) : d \in DateFields(m)}
            IN  IF g = "ref" THEN ref
                ELSE IF nested # {}
                THEN LET n == CHOOSE n \in nested : TRUE
                     IN  CASE n[3] = "record" -> MarkObject(n[2], isDomain, x[g], at)
                           [] n[3] = "optional" ->
                                 IF x[g] \in {Null, Undefined} THEN x[g]
                                 ELSE MarkObject(n[2], isDomain, x[g], at)
                           [] n[3] = "array" ->
                                 [i \in 1..Len(x[g]) |->
                                     MarkObject(n[2], isDomain, x[g][i],
                                                [call |-> ref.call,
                                                 path |-> at.path \o "." \o NatToString(i)])]
                ELSE IF ~isDomain /\ g \in dates /\ x[g] # Null
                THEN AddRef(x[g], at)
                ELSE x[g]]

RECURSIVE AllRefs(_, _, _)
\* the refs of the objects in record x of mapper m
AllRefs(m, isDomain, x) ==
    (IF "ref" \in DOMAIN x THEN {x.ref} ELSE {})
    \cup UNION {
        LET g == FieldName(m, isDomain, n[1])
        IN  IF g \notin DOMAIN x THEN {}
            ELSE CASE n[3] = "record" -> AllRefs(n[2], isDomain, x[g])
                   [] n[3] = "optional" ->
                         IF x[g] \in {Null, Undefined} THEN {}
                         ELSE AllRefs(n[2], isDomain, x[g])
                   [] n[3] = "array" ->
                         UNION {AllRefs(n[2], isDomain, x[g][i]) : i \in 1..Len(x[g])}
        : n \in NestedFields(m)}
    \cup (IF isDomain THEN {}
          ELSE UNION {
              LET g == FieldName(m, isDomain, d)
              IN  IF g \in DOMAIN x /\ x[g] # Null /\ "ref" \in DOMAIN x[g]
                  THEN {x[g].ref} ELSE {}
              : d \in DateFields(m)})

InitObjects ==
    /\ mapper \in Mappers
    /\ given = "domain"
    /\ \E d \in DomainModels(mapper) :
          chain = <<MarkObject(mapper, TRUE, d, [call |-> 1, path |-> ""])>>
    /\ chainB = <<>>
    /\ fpErr \in IF mapper = "ProductMapper"
                 THEN [nearest : {-1, 1}, product : {-1, 0, 1}]
                 ELSE {[nearest |-> 1, product |-> 0]}
    /\ localTZA \in IF mapper \in DatedMappers THEN LocalTZAs ELSE {0}

\* what the caller holds after the call: the objects the call made get its ref
Returned(result, isDomain) ==
    IF IsError(result) THEN result
    ELSE MarkObject(mapper, isDomain, result, [call |-> Len(chain) + 1, path |-> ""])

Call_toViewModel ==
    /\ Len(chain) <= MaxCalls
    /\ Len(chain) % 2 = 1
    /\ ~IsError(Last(chain))
    /\ Return(Returned(Apply(mapper, TRUE, Last(chain)), FALSE))

Call_toDomainModel ==
    /\ Len(chain) <= MaxCalls
    /\ Len(chain) % 2 = 0
    /\ ~IsError(Last(chain))
    /\ Return(Returned(Apply(mapper, FALSE, Last(chain)), TRUE))

NextObjects == Call_toViewModel \/ Call_toDomainModel

SpecObjects == InitObjects /\ [][NextObjects]_vars


-----------------------------------------------------------------------------
(* Properties *)

\* the caller of mapper m has made at least n calls, none of which threw
Made(m, n) == mapper = m /\ Len(chain) >= n + 1 /\ chain[n + 1] # RangeError

PostHasValidDates(d) ==
    d.created_at \in ValidDateStrings /\ d.updated_at \in ValidDateStrings

\* the domainPost of tests/PostMapper.test.ts
TestDomainPost ==
    [id |-> "1", title |-> "Test Post", description |-> "This is a test post.",
     stars |-> 5, created_at |-> "2025-01-01T10:00:00Z",
     updated_at |-> "2025-01-02T10:00:00Z"]

\* C1: for the getting-started PostMapper and every domain post d with valid
\* ISO-8601 dates, toDomainModel(toViewModel(d)) equals d on every field,
\* created_at and updated_at compared as strings.
C1_PostRoundTripExact ==
    (Made("PostMapper", 2) /\ PostHasValidDates(chain[1])) => chain[3] = chain[1]

\* mappers that only rename or copy fields and compose nested mappers
RenamingMappers ==
    {"CategoryMapper", "RoleMapper", "AuthorMapper", "AttachmentMapper",
     "UserMapper", "TaskMapper", "ProjectMapper", "RolesUserMapper"}

\* C2: for every mapper that only renames or copies fields and composes nested
\* mappers, toDomainModel(toViewModel(d)) equals d field for field, nested
\* records and array elements included.
C2_RenamingRoundTrip ==
    (mapper \in RenamingMappers /\ Len(chain) >= 3) => chain[3] = chain[1]

\* a project of two different tasks went through both directions of ProjectMapper
C2_Witness ==
    /\ Made("ProjectMapper", 2)
    /\ Len(chain[1].tasks) >= 2
    /\ chain[1].tasks[1] # chain[1].tasks[2]
    /\ chain[2].tasks[1].assignee.displayName = "Alice"

\* C3: for ProductMapper and every integer price_cents,
\* toDomainModel(toViewModel(d)).price_cents equals d.price_cents, and the
\* inverse maps "$19.99" back to 1999.
C3_PriceRoundTrip ==
    Made("ProductMapper", 2) =>
        /\ chain[3].price_cents = chain[1].price_cents
        /\ chain[2].price = "$19.99" => chain[3].price_cents = JsNumber(1999)

\* "$19.99" was mapped back where the product 19.99 * 100 fell below 1999
C3_Witness ==
    /\ Made("ProductMapper", 2)
    /\ chain[2].price = "$19.99"
    /\ fpErr.product = -1

\* C4: for every mapper and every view record v returned by toViewModel,
\* toViewModel(toDomainModel(v)) equals v (a Date by its instant, an optional
\* nested field as null or record).
C4_ViewRoundTrip ==
    (Len(chain) >= 4 /\ chain[4] # RangeError) => chain[4] = chain[2]

\* a message with an attachment and a date with milliseconds, from a zone
\* offset, was mapped to a view, back and to a view again
C4_Witness ==
    /\ Made("MessageMapper", 3)
    /\ chain[1].sent_at = "2025-01-01T00:15:00.500+05:30"
    /\ chain[2].attachment # Null
    /\ chain[2].sentAt.ms % 1000 = 500

\* the domainTodo of the todo usage example
ExampleDomainTodo ==
    [id |-> "t1", text |-> "Buy milk", completed |-> FALSE,
     due_date |-> JsString("2025-06-20T12:00:00Z")]

\* the Date for 2025-06-20T12:00:00Z: 20259 days and 12 hours after the epoch
ExampleDueDate == [valid |-> TRUE, days |-> 20259, ms |-> 43200000]

\* C5: TodoMapper maps the example domain todo to the view {id:'t1',
\* text:'Buy milk', isDone:false, dueDate: Date 2025-06-20T12:00:00Z}, and
\* toDomainModel of that view returns exactly the original domain record.
C5_TodoExampleRoundTrip ==
    (mapper = "TodoMapper" /\ chain[1] = ExampleDomainTodo) =>
        /\ Len(chain) >= 2 =>
              chain[2] = [id |-> "t1", text |-> "Buy milk", isDone |-> FALSE,
                          dueDate |-> ExampleDueDate]
        /\ Len(chain) >= 3 => chain[3] = chain[1]

\* the array field of the array-bearing mappers, and the mapper of its elements
ArrayField(m) == IF m = "ProjectMapper" THEN "tasks" ELSE "roles"

ElementToViewModel(m, e) ==
    IF m = "ProjectMapper" THEN TaskMapper_toViewModel(e) ELSE RoleMapper_toViewModel(e)

ElementToDomainModel(m, e) ==
    IF m = "ProjectMapper" THEN TaskMapper_toDomainModel(e) ELSE RoleMapper_toDomainModel(e)

\* C6: in both directions of the user-management UserMapper (roles) and of
\* ProjectMapper (tasks), an input array of n records gives an output array of
\* length n whose element i is the nested mapper applied to input element i;
\* roles [{id:'r1', name:'admin'}] maps to [{id:'r1', label:'admin'}].
C6_ArrayElementwise ==
    mapper \in {"ProjectMapper", "RolesUserMapper"} =>
        \A k \in 1..(Len(chain) - 1) :
            LET input  == chain[k][ArrayField(mapper)]
                output == chain[k + 1][ArrayField(mapper)]
            IN  /\ Len(output) = Len(input)
                /\ \A i \in 1..Len(input) :
                      output[i] = IF k % 2 = 1
                                  THEN ElementToViewModel(mapper, input[i])
                                  ELSE ElementToDomainModel(mapper, input[i])
                /\ (k = 1 /\ input = <<[id |-> "r1", name |-> "admin"]>>)
                      => output = <<[id |-> "r1", label |-> "admin"]>>

\* a user with two different roles was mapped in both directions
C6_Witness ==
    /\ Made("RolesUserMapper", 2)
    /\ chain[1].roles = <<[id |-> "r1", name |-> "admin"], [id |-> "r2", name |-> "editor"]>>
    /\ chain[2].roles[2].label = "editor"

\* the attachment of the input of call k of MessageMapper is absent
AttachmentAbsent(k) == "attachment" \notin DOMAIN chain[k]

\* the nested mapper of call k applied to the attachment of its input
MappedAttachment(k) ==
    IF k % 2 = 1 THEN AttachmentMapper_toViewModel(chain[k].attachment)
    ELSE AttachmentMapper_toDomainModel(chain[k].attachment)

\* C7 as stated: in both directions of MessageMapper, an attachment that is
\* null in the input is null in the output, one that is absent is absent, and
\* one that is present is present, non-null and equal to AttachmentMapper
\* applied to it.
C7_AttachmentNullOrAbsentRespectively ==
    mapper = "MessageMapper" =>
        \A k \in 1..(Len(chain) - 1) :
            chain[k + 1] # RangeError =>
                IF AttachmentAbsent(k) THEN AttachmentAbsent(k + 1)
                ELSE IF chain[k].attachment = Null THEN chain[k + 1].attachment = Null
                ELSE /\ ~AttachmentAbsent(k + 1)
                     /\ chain[k + 1].attachment # Null
                     /\ chain[k + 1].attachment = MappedAttachment(k)

\* C7 amended: in both directions of MessageMapper, an attachment that is null
\* or absent in the input is null in the output, and one that is present is
\* present, non-null and equal to AttachmentMapper applied to it; null maps to
\* null and {id:'a1', url:'/img.png', type:'image'} to {id:'a1',
\* url:'/img.png', kind:'image'}.
C7_AttachmentNullPreserving ==
    mapper = "MessageMapper" =>
        \A k \in 1..(Len(chain) - 1) :
            chain[k + 1] # RangeError =>
                /\ ~AttachmentAbsent(k + 1)
                /\ IF AttachmentAbsent(k) THEN chain[k + 1].attachment = Null
                   ELSE IF chain[k].attachment = Null
                   THEN chain[k + 1].attachment = Null
                   ELSE /\ chain[k + 1].attachment # Null
                        /\ chain[k + 1].attachment = MappedAttachment(k)
                /\ (k = 1 /\ ~AttachmentAbsent(1)
                    /\ chain[1].attachment = [id |-> "a1", url |-> "/img.png", type |-> "image"])
                      => chain[2].attachment = [id |-> "a1", url |-> "/img.png", kind |-> "image"]

\* a message without an attachment property was mapped to a view
C7_Witness ==
    /\ Made("MessageMapper", 1)
    /\ AttachmentAbsent(1)
    /\ chain[2].attachment = Null

\* C8: for every parent mapper with a single nested record (ProductMapper and
\* category, the blog PostMapper and author, TaskMapper and assignee),
\* toViewModel(d) is the parent view built from d's own fields with the nested
\* field set to the nested mapper's toViewModel of d's nested record, which
\* depends on no other field of the parent.
C8_NestedDistributes ==
    /\ Made("ProductMapper", 1) =>
          /\ DOMAIN chain[2] = {"id", "name", "price", "category", "imageUrl"}
          /\ chain[2].id = chain[1].id /\ chain[2].name = chain[1].name
          /\ chain[2].imageUrl = chain[1].image_url
          /\ chain[2].category = CategoryMapper_toViewModel(chain[1].category)
          /\ \A d \in ProductDomainModels :
                d.category = chain[1].category =>
                    ProductMapper_toViewModel(d).category = chain[2].category
    /\ Made("BlogPostMapper", 1) =>
          /\ DOMAIN chain[2] = {"id", "title", "content", "author", "publishedAt"}
          /\ chain[2].id = chain[1].id /\ chain[2].title = chain[1].title
          /\ chain[2].content = chain[1].content
          /\ chain[2].author = AuthorMapper_toViewModel(chain[1].author)
          /\ \A d \in BlogPostDomainModels :
                d.author = chain[1].author =>
                    BlogPostMapper_toViewModel(d).author = chain[2].author
    /\ Made("TaskMapper", 1) =>
          /\ DOMAIN chain[2] = {"id", "title", "isDone", "assignee"}
          /\ chain[2].id = chain[1].id /\ chain[2].title = chain[1].title
          /\ chain[2].isDone = chain[1].completed
          /\ chain[2].assignee = UserMapper_toViewModel(chain[1].assignee)
          /\ \A d \in TaskDomainModels :
                d.assignee = chain[1].assignee =>
                    TaskMapper_toViewModel(d).assignee = chain[2].assignee

\* the blog post of Alice was mapped to a view
C8_Witness ==
    /\ Made("BlogPostMapper", 1)
    /\ chain[1].author = [id |-> "a1", name |-> "Alice", avatar_url |-> "/alice.png"]
    /\ chain[2].author.displayName = "Alice"

InstantOf ==
    [s \in {"2025-01-01T10:00:00Z", "2025-01-02T10:00:00Z", "2025-06-15T12:00:00.250Z",
            "2024-02-29T23:30:00-02:00", "2025-01-01T00:15:00.500+05:30", "2025-06-20"} |->
        CASE s = "2025-01-01T10:00:00Z" -> [valid |-> TRUE, days |-> 20089, ms |-> 36000000]
          [] s = "2025-01-02T10:00:00Z" -> [valid |-> TRUE, days |-> 20090, ms |-> 36000000]
          [] s = "2025-06-15T12:00:00.250Z" -> [valid |-> TRUE, days |-> 20254, ms |-> 43200250]
          [] s = "2024-02-29T23:30:00-02:00" -> [valid |-> TRUE, days |-> 19783, ms |-> 5400000]
          [] s = "2025-01-01T00:15:00.500+05:30" -> [valid |-> TRUE, days |-> 20088, ms |-> 67500500]
          [] s = "2025-06-20" -> [valid |-> TRUE, days |-> 20259, ms |-> 0]]

\* C10: for the getting-started PostMapper and every domain post with valid ISO
\* dates, toViewModel copies id, title, description and stars unchanged and
\* sets createdAt and updatedAt to the Dates of the instants that created_at
\* and updated_at denote.
C10_PostToViewModel ==
    (mapper = "PostMapper" /\ Len(chain) >= 2 /\ PostHasValidDates(chain[1])) =>
        LET d == chain[1]
            v == chain[2]
        IN  /\ DOMAIN v = {"id", "title", "description", "stars", "createdAt", "updatedAt"}
            /\ v.id = d.id /\ v.title = d.title
            /\ v.description = d.description /\ v.stars = d.stars
            /\ v.createdAt.valid /\ v.updatedAt.valid
            /\ v.createdAt = NewDate(d.created_at)
            /\ v.updatedAt = NewDate(d.updated_at)
            /\ d.created_at \in DOMAIN InstantOf => v.createdAt = InstantOf[d.created_at]
            /\ d.updated_at \in DOMAIN InstantOf => v.updatedAt = InstantOf[d.updated_at]

\* the post of the mapper test was mapped to a view
C10_Witness ==
    /\ Made("PostMapper", 1)
    /\ chain[1] = TestDomainPost
    /\ chain[2].updatedAt = [valid |-> TRUE, days |-> 20090, ms |-> 36000000]


\* the date strings of a domain record of one of the mappers that read dates
DomainDateStrings(m, d) ==
    CASE m = "TodoMapper" -> IF d.due_date = Null THEN {} ELSE {d.due_date.value}
      [] m = "PostMapper" -> {d.created_at, d.updated_at}
      [] m = "BlogPostMapper" -> {d.published_at}
      [] m = "MessageMapper" -> {d.sent_at}
      [] OTHER -> {}

\* C11: when a date field of a domain record is not a valid ISO-8601 string,
\* toViewModel of TodoMapper, of the PostMappers and of MessageMapper fails and
\* the failure reaches the caller; no view record is returned for that input.
C11_InvalidDateFails ==
    (/\ mapper \in DatedMappers
     /\ Len(chain) >= 2
     /\ DomainDateStrings(mapper, chain[1]) \cap InvalidDateStrings # {})
        => IsError(chain[2])


\* a price text as ProductMapper.toViewModel writes it: $, digits, a point
\* and two digits
WellFormedPrice(s) ==
    /\ Len(s) >= 5
    /\ Char(s, 1) = "$"
    /\ AllDigits(SubSeq(s, 2, Len(s) - 3))
    /\ Char(s, Len(s) - 2) = "."
    /\ AllDigits(SubSeq(s, Len(s) - 1, Len(s)))

\* C12: when ProductMapper.toDomainModel is given a view whose price text
\* cannot be parsed back (the '$' is missing, as in "19.99", or the text is no
\* number), the call fails and the failure reaches the caller; no domain
\* record with a substituted price_cents is returned.
C12_BadPriceFails ==
    (/\ mapper = "ProductMapper" /\ given = "view"
     /\ Len(chain) >= 2
     /\ ~WellFormedPrice(chain[1].price))
        => IsError(chain[2])


\* C13: toViewModel of every mapper returns, without throwing, for every
\* input of the declared domain shape: a todo whose due_date is null, a
\* message whose attachment is null or absent, a user or project whose array
\* is empty.
C13_ToViewModelReturns ==
    (given = "domain" /\ Len(chain) >= 2) => ~IsError(chain[2])

\* a message whose attachment is null was mapped to a view
C13_Witness ==
    /\ Made("MessageMapper", 1)
    /\ ~AttachmentAbsent(1)
    /\ chain[1].attachment = Null
    /\ chain[2].attachment = Null


\* the calls made so far, each named by its caller and its position
CallsOf(caller) ==
    {<<caller, k>> : k \in 1..((IF caller = "A" THEN Len(chain) ELSE Len(chainB)) - 1)}

Calls == CallsOf("A") \cup (IF chainB = <<>> THEN {} ELSE CallsOf("B"))

Records(c) == IF c[1] = "A" THEN chain ELSE chainB

Input(c) == Records(c)[c[2]]

Output(c) == Records(c)[c[2] + 1]

\* TRUE for a toViewModel call
Forward(c) == IF c[1] = "A" THEN (c[2] % 2 = 1) = (given = "domain") ELSE c[2] % 2 = 1

RECURSIVE IsTotal(_, _, _, _)
\* out has exactly the fields declared for the output type of m, every field
\* of in has its corresponding field in out, and so for every nested record
IsTotal(m, forward, in, out) ==
    /\ DOMAIN out = IF forward THEN ViewFields(m) ELSE DomainFields(m)
    /\ \A f \in DOMAIN in :
           (IF forward THEN ViewFieldOf(m)[f] ELSE DomainFieldOf(m, f)) \in DOMAIN out
    /\ \A n \in NestedFields(m) :
           LET fi == IF forward THEN n[1] ELSE ViewFieldOf(m)[n[1]]
               fo == IF forward THEN ViewFieldOf(m)[n[1]] ELSE n[1]
           IN  CASE n[3] = "record" -> IsTotal(n[2], forward, in[fi], out[fo])
                 [] n[3] = "optional" ->
                       (fi \in DOMAIN in /\ in[fi] # Null)
                           => (out[fo] # Null /\ IsTotal(n[2], forward, in[fi], out[fo]))
                 [] n[3] = "array" ->
                       /\ Len(out[fo]) = Len(in[fi])
                       /\ \A i \in 1..Len(in[fi]) :
                              IsTotal(n[2], forward, in[fi][i], out[fo][i])

\* C17: the mapping is total in both directions: the record a call returns
\* has every field its type declares, nested records and array elements
\* included, and no field of the input is left without its output field.
C17_Total ==
    \A k \in 1..(Len(chain) - 1) :
        ~IsError(chain[k + 1])
            => IsTotal(mapper, (k % 2 = 1) = (given = "domain"), chain[k], chain[k + 1])

\* a product was mapped to a view and back, all five fields returned
C17_Witness ==
    /\ Made("ProductMapper", 2)
    /\ DOMAIN chain[2] = {"id", "name", "price", "category", "imageUrl"}
    /\ DOMAIN chain[3] = {"id", "name", "price_cents", "category", "image_url"}


\* the domainProject of the project management usage example
ExampleDomainProject ==
    [id |-> "p1", name |-> "Website Redesign",
     tasks |-> <<[id |-> "t1", title |-> "Design homepage", completed |-> FALSE,
                  assignee |-> [id |-> "u1", name |-> "Alice"]]>>]

\* C18: ProjectMapper.toViewModel composes three levels: task i of the view
\* has assignee.displayName equal to the name of the assignee of task i of
\* the domain project, the same assignee id, and isDone equal to completed;
\* for the project of the usage example tasks[0].assignee.displayName is
\* 'Alice'.
C18_ThreeLevels ==
    (Made("ProjectMapper", 1) /\ given = "domain") =>
        /\ Len(chain[2].tasks) = Len(chain[1].tasks)
        /\ \A i \in 1..Len(chain[1].tasks) :
               /\ chain[2].tasks[i].assignee.displayName = chain[1].tasks[i].assignee.name
               /\ chain[2].tasks[i].assignee.id = chain[1].tasks[i].assignee.id
               /\ chain[2].tasks[i].isDone = chain[1].tasks[i].completed
        /\ chain[1] = ExampleDomainProject
               => chain[2].tasks[1].assignee.displayName = "Alice"

\* the project of the usage example was mapped to a view
C18_Witness ==
    /\ Made("ProjectMapper", 1)
    /\ chain[1] = ExampleDomainProject
    /\ chain[2].tasks[1].assignee = [id |-> "u1", displayName |-> "Alice"]


\* the string in date field f of domain record d (TodoMapper: not null)
DateString(m, d, f) == IF m = "TodoMapper" THEN d[f].value ELSE d[f]

\* the form toISOString writes: YYYY-MM-DDTHH:mm:ss.sssZ
IsCanonical(s) ==
    /\ Len(s) = 24
    /\ AllDigits(SubSeq(s, 1, 4)) /\ Char(s, 5) = "-"
    /\ AllDigits(SubSeq(s, 6, 7)) /\ Char(s, 8) = "-"
    /\ AllDigits(SubSeq(s, 9, 10)) /\ Char(s, 11) = "T"
    /\ AllDigits(SubSeq(s, 12, 13)) /\ Char(s, 14) = ":"
    /\ AllDigits(SubSeq(s, 15, 16)) /\ Char(s, 17) = ":"
    /\ AllDigits(SubSeq(s, 18, 19)) /\ Char(s, 20) = "."
    /\ AllDigits(SubSeq(s, 21, 23)) /\ Char(s, 24) = "Z"

C20_AttachmentNeverAbsent ==
    mapper = "MessageMapper" =>
        /\ \A k \in 1..(Len(chain) - 1) :
               ~IsError(chain[k + 1]) =>
                  /\ "attachment" \in DOMAIN chain[k + 1]
                  /\ chain[k + 1].attachment # Undefined
                  /\ (chain[k + 1].attachment = Null)
                        <=> (Get(chain[k], "attachment") \in {Null, Undefined})
        /\ (/\ given = "domain" /\ AttachmentAbsent(1)
            /\ Len(chain) >= 3 /\ ~IsError(chain[3]))
               => chain[3].attachment = Null

\* a message view without the attachment field was mapped to a domain message
C20_Witness ==
    /\ Made("MessageMapper", 1)
    /\ given = "view"
    /\ AttachmentAbsent(1)
    /\ chain[2].attachment = Null


C21_DueDateNull ==
    (mapper = "TodoMapper" /\ given = "domain") =>
        /\ \A k \in 1..(Len(chain) - 1) :
               IF k % 2 = 1
               THEN /\ ~IsError(chain[k + 1])
                    /\ (chain[k + 1].dueDate = Null)
                          <=> (chain[k].due_date \in {Null, JsString("")})
                    /\ chain[k + 1].dueDate # Null
                          => /\ DOMAIN chain[k + 1].dueDate = {"valid", "days", "ms"}
                             /\ chain[k + 1].dueDate = NewDate(chain[k].due_date.value)
               ELSE ~IsError(chain[k + 1])
                       => ((chain[k + 1].due_date = Null) <=> (chain[k].dueDate = Null))
        /\ (Len(chain) >= 3 /\ chain[1].due_date \in {Null, JsString("")})
               => (~IsError(chain[3]) /\ chain[3].due_date = Null)

\* a todo whose due_date is the empty string was mapped to a view and back
C21_Witness ==
    /\ Made("TodoMapper", 2)
    /\ chain[1].due_date = JsString("")
    /\ chain[2].dueDate = Null
    /\ chain[3].due_date = Null

====
